---- MODULE Spec2Model ----
(***************************************************************************)
(* One-way synchronization of a local directory tree onto a cloud folder   *)
(* (main.py, yandex_cloud.py).  The model follows the recursive coroutine  *)
(* synchronization() frame by frame: one action per stretch of code        *)
(* between two suspension points (awaits on the backend).                  *)
(*                                                                         *)
(* main.py calls the adapter under the names get_info, is_exists_folder,   *)
(* create_folder_cloud, load, reload and delete; the adapter operators     *)
(* below take their behaviour from the YandexCloud methods get_info,       *)
(* is_exists_folder, create_folder, upload_file, update_file and           *)
(* delete_file.                                                            *)
(***************************************************************************)
EXTENDS Integers, Sequences, FiniteSets, Bags, TLC

\* ------------------------------------------------------------------ bounds
MaxPass == 2
MaxTime == 3
MaxFaults == 2

\* The server's clock, which stamps "modified" on every stored file.  It lies
\* inside the range of local mtimes, so local files dated before, at and
\* after the server's clock all occur.
Now == MaxTime - 1

Times == 1..MaxTime

\* ------------------------------------------------------------- file trees
\* A tree (local or remote) is a set of nodes; a node is a path (sequence of
\* names) below the root, a directory flag and a modification time.
File(p, m) == [p |-> p, d |-> FALSE, m |-> m]
Dir(p)     == [p |-> p, d |-> TRUE,  m |-> 1]

Root == << >>

Parent(p) == SubSeq(p, 1, Len(p) - 1)
Last(p)   == p[Len(p)]
IsPrefix(a, b) == Len(a) <= Len(b) /\ SubSeq(b, 1, Len(a)) = a

Children(tree, path) == {n \in tree : n.p # Root /\ Parent(n.p) = path}

\* os.listdir(path_on_pc)
listdir(tree, path) == {Last(n.p) : n \in Children(tree, path)}

\* os.path.isdir(os.path.join(path_on_pc, item))
isdir(tree, path, item) ==
    \E n \in tree : n.p = Append(path, item) /\ n.d

\* os.path.getmtime(item_path)
getmtime(tree, path, item) ==
    (CHOOSE n \in tree : n.p = Append(path, item)).m

\* The remote folder at the given path exists (the root folder always does:
\* it is created at startup).
FolderExists(store, path) ==
    path = Root \/ \E n \in store : n.p = path /\ n.d

\* Variant of Listing: the folders are left out
Listing_FilesOnly(store, path) ==
    [name \in {n \in listdir(store, path) : ~isdir(store, path, n)} |->
        getmtime(store, path, name)]

\* The items of the remote folder as get_info() turns them into a dict:
\* every item's name (files and folders alike) with its "modified" time.
Listing(store, path) ==
    [name \in listdir(store, path) |-> getmtime(store, path, name)]

\* ---------------------------------------------------------------- inputs
\* The scenario of the specification, a tree with sibling subdirectories, and
\* a directory with a file of every age together with remote-only entries.
LocalScenario ==
    {File(<<"report.txt">>, 2), Dir(<<"img">>), File(<<"img", "a.png">>, 1)}
RemoteScenario ==
    {File(<<"report.txt">>, 1), File(<<"old.txt">>, 1)}

LocalSiblings ==
    {Dir(<<"A">>), Dir(<<"A", "B">>), Dir(<<"A", "C">>),
     File(<<"A", "C", "f">>, 1)}
RemoteSiblings ==
    {Dir(<<"A">>), Dir(<<"A", "B">>), Dir(<<"A", "B", "C">>),
     File(<<"A", "B", "C", "z">>, 1)}

LocalMixed(m)  == {File(<<"f">>, m), Dir(<<"d">>)}
RemoteMixed(m) == {File(<<"f">>, m), File(<<"h">>, 1), Dir(<<"d">>)}
RemoteOnlyDir  == {Dir(<<"d">>), Dir(<<"e">>)}

Scenarios ==
    {[local |-> LocalScenario, remote |-> RemoteScenario]}
    \cup {[local |-> LocalSiblings, remote |-> r] : r \in {{}, RemoteSiblings}}
    \cup {[local |-> LocalMixed(m), remote |-> RemoteMixed(k)] :
            m \in Times, k \in Times}
    \cup {[local |-> LocalMixed(m), remote |-> r] :
            m \in Times, r \in {{}, RemoteOnlyDir}}

\* ------------------------------------------------- errors and their handlers
\* Outcomes of one backend call: success, a 401 status, another non-success
\* status, a transport error of aiohttp (refused, reset, connect/read
\* timeout), the expiry of the total timeout (asyncio.TimeoutError), and a
\* local permission error on opening the file.
Statuses == {"unauthorized", "status"}
Transport == {"conn", "timeout"}

\* YandexCloud.get_info
GetInfoRaises(o) ==
    CASE o \in Statuses -> "RequestError"
      [] o = "conn"     -> "ClientConnectionError"
      [] o = "timeout"  -> "TimeoutError"
      [] OTHER          -> "none"

\* YandexCloud.is_exists_folder: any status but 200 answers False
IsExistsRaises(o) ==
    CASE o = "conn"    -> "ClientConnectionError"
      [] o = "timeout" -> "TimeoutError"
      [] OTHER         -> "none"

\* What the backend answers to the creation of a folder that it does not
\* refuse: 201 Created, or 409 Conflict if the folder exists
Answer(o, exists) ==
    IF o # "ok" THEN o ELSE IF exists THEN "conflict" ELSE "created"

\* Variant of CreateFolderRaises: 409 is an error like any other status
CreateFolderRaises_Conflict(o) ==
    CASE o = "unauthorized"          -> "AuthorizationError"
      [] o \in {"status", "conflict"} -> "RequestError"
      [] o = "conn"                  -> "ClientConnectionError"
      [] o = "timeout"               -> "TimeoutError"
      [] OTHER                       -> "none"

\* YandexCloud.create_folder: 201 and 409 pass, 401 is AuthorizationError
CreateFolderRaises(o) ==
    CASE o = "unauthorized" -> "AuthorizationError"
      [] o = "status"       -> "RequestError"
      [] o = "conn"         -> "ClientConnectionError"
      [] o = "timeout"      -> "TimeoutError"
      [] OTHER              -> "none"

\* YandexCloud._save (upload_file, update_file): every aiohttp.ClientError
\* is re-raised as RequestError
SaveRaises(o) ==
    CASE o \in Statuses  -> "RequestError"
      [] o = "conn"      -> "RequestError"
      [] o = "timeout"   -> "TimeoutError"
      [] o = "perm"      -> "PermissionError"
      [] OTHER           -> "none"

\* YandexCloud.delete_file
DeleteRaises(o) ==
    CASE o \in Statuses -> "RequestError"
      [] o = "conn"     -> "ClientConnectionError"
      [] o = "timeout"  -> "TimeoutError"
      [] OTHER          -> "none"

\* func_error_logging is a plain function: its result (None) is not
\* awaitable, so "await func_error_logging(...)" raises TypeError.
AwaitFuncErrorLogging == "TypeError"

\* The decorator connect_error around a call that ended with e ("none": it
\* returned).  The result is "ok" (the call's own value), "None" (the error
\* was logged and None returned) or the exception that leaves the wrapper.
connect_error(e) ==
    CASE e = "none"                  -> "ok"
      [] e = "RequestError"          -> "None"
      [] e = "ClientConnectionError" -> AwaitFuncErrorLogging
      [] OTHER                       -> e

\* aiohttp.ClientError covers the transport errors; AuthorizationError and
\* RequestError derive from requests.RequestException and are not covered.
IsClientError(e) == e = "ClientConnectionError"

\* create_folder_in_cloud
create_folder_in_cloud(o) ==
    LET e == CreateFolderRaises(o)
    IN  IF IsClientError(e)
        THEN (IF e = "AuthorizationError" THEN "SystemExit" ELSE "ok")
        ELSE connect_error(e)

\* cloud_load (upload and overwrite)
cloud_load(o) ==
    LET e == SaveRaises(o)
    IN  IF e = "PermissionError" THEN "None" ELSE connect_error(e)

\* delete_file
delete_file(o) == connect_error(DeleteRaises(o))

\* An exception e raised in the body of the n-th frame of synchronization()
\* travels through that frame's connect_error wrapper; a frame that returns
\* None makes its caller's tuple unpacking raise TypeError.  The result is
\* the exception that arrives in the try block of main().
RECURSIVE AtMain(_, _)
AtMain(e, n) ==
    LET r  == connect_error(e)
        e2 == IF r = "None" THEN "TypeError" ELSE r
    IN  IF n <= 1 THEN e2 ELSE AtMain(e2, n - 1)

\* Variant of MainCatches: "except Exception"
MainCatches_All(e) == e # "SystemExit"

\* The except clauses of main(): asyncio.TimeoutError and the builtin
\* ConnectionError (which none of the errors above is).
MainCatches(e) == e = "TimeoutError"

\* ------------------------------------------------------------- startup
\* The characters a configured period is made of, and the periods tried
Chars == {"0", "6", "a", "-"}
MaxPeriodLen == 2
Periods == UNION {[1..n -> Chars] : n \in 0..MaxPeriodLen}

\* str.isdigit: at least one character, and decimal digits only
isdigit(period) ==
    /\ Len(period) > 0
    /\ \A i \in 1..Len(period) : period[i] \in {"0", "6"}

\* int(period) of a string of digits
RECURSIVE int(_)
int(period) ==
    IF period = << >> THEN 0
    ELSE 10 * int(SubSeq(period, 1, Len(period) - 1))
         + (IF period[Len(period)] = "6" THEN 6 ELSE 0)

\* util.check_sleep_period: sys.exit(1) unless the period is made of digits
check_sleep_period(period) ==
    IF ~isdigit(period) THEN "SystemExit" ELSE "None"

\* util.check_path_exists: sys.exit(1) unless os.path.exists
check_path_exists(exists) ==
    IF exists THEN "None" ELSE "SystemExit"

\* Variant of Await: the value is awaitable
Await_Awaitable(r) == IF r = "None" THEN "ok" ELSE r

\* "await f(...)" where f is a plain function: f runs, and the None it
\* returned is not awaitable, so the await raises TypeError.
Await(r) == IF r = "None" THEN "TypeError" ELSE r

\* main.py:201-205, from the answer o of the backend to the creation of the
\* root folder up to the loop: "loop" if main() gets there, otherwise the
\* exception that leaves main().
Startup(o, exists, period) ==
    LET r1 == create_folder_in_cloud(o)
        r2 == Await(check_path_exists(exists))
        r3 == Await(check_sleep_period(period))
    IN  IF r1 \notin {"ok", "None"} THEN r1
        ELSE IF r2 # "ok" THEN r2
        ELSE IF r3 # "ok" THEN r3
        ELSE "loop"

\* main() in its loop, as Init has it
AtLoop == [pc |-> "loop", o |-> "ok", exists |-> TRUE,
           period |-> <<"6", "0">>, exc |-> "none"]

\* ----------------------------------------------------- classification
\* Variant of Newer: ">=" for ">"
Newer_OrEqual(modified, cloud_mtime) == modified >= cloud_mtime

\* "modified > cloud_mtime" (main.py:166)
Newer(modified, cloud_mtime) == modified > cloud_mtime

\* Variant of Classify: a file absent from the cloud is left alone
Classify_NoUpload(has, modified, cloud_mtime) ==
    IF ~has THEN "none"
    ELSE IF Newer(modified, cloud_mtime) THEN "overwrite"
    ELSE "none"

\* Variant of Classify: a file present in the cloud is always rewritten
Classify_NoCompare(has, modified, cloud_mtime) ==
    IF ~has THEN "upload" ELSE "overwrite"

\* The branch taken for a local file (main.py:159-169); has is FALSE when
\* cloud_files.pop(item, None) gave None.
Classify(has, modified, cloud_mtime) ==
    IF ~has THEN "upload"
    ELSE IF Newer(modified, cloud_mtime) THEN "overwrite"
    ELSE "none"

\* Variant of Pop: cloud_files.get(item), which leaves the dict as it is
Pop_Keep(cloud_files, item) == cloud_files

\* cloud_files.pop(item, None): the dict without the item
Pop(cloud_files, item) ==
    [n \in (DOMAIN cloud_files) \ {item} |-> cloud_files[n]]

\* Variant of DeleteSweep: no os.path.isdir test
DeleteSweep_NoIsdir(tree, path, cloud_files) == DOMAIN cloud_files

\* The names the delete sweep schedules (main.py:172-179)
DeleteSweep(tree, path, cloud_files) ==
    {n \in DOMAIN cloud_files : ~isdir(tree, path, n)}

\* A set of names as a list, in some fixed order
RECURSIVE SetToSeq(_)
SetToSeq(S) ==
    IF S = {} THEN << >>
    ELSE LET x == CHOOSE y \in S : TRUE IN <<x>> \o SetToSeq(S \ {x})

\* Variant of Task: the operation starts when it is scheduled
Task_Eager(kind, name) ==
    [kind |-> kind, name |-> name, target |-> Root, st |-> "run"]

\* One entry of the list "tasks": a coroutine object that has not started.
Task(kind, name) == [kind |-> kind, name |-> name, target |-> Root, st |-> "new"]

\* asyncio.gather starts every coroutine; each one reads
\* cloud.name_folder_cloud when it builds its URL (yandex_cloud.py:108,120,132).
Start(t, cur) == [t EXCEPT !.target = Append(cur, t.name), !.st = "run"]

ZeroCounts == [download |-> 0, deleted |-> 0, rewritten |-> 0]

\* The counters after scheduling an operation of the given kind
Count(cnt, kind) ==
    CASE kind = "upload"    -> [cnt EXCEPT !.download = @ + 1]
      [] kind = "overwrite" -> [cnt EXCEPT !.rewritten = @ + 1]
      [] kind = "delete"    -> [cnt EXCEPT !.deleted = @ + 1]
      [] OTHER              -> cnt

\* Variant of AddCounts: the child's triple is dropped
AddCounts_Drop(cnt, sub) == cnt

\* main.py:147-152: the child's triple is unpacked as sub_download,
\* sub_deleted, sub_rewritten and added to the caller's counters
AddCounts(cnt, sub) ==
    [download  |-> cnt.download + sub[1],
     deleted   |-> cnt.deleted + sub[2],
     rewritten |-> cnt.rewritten + sub[3]]

\* Variant of Returned: the overwrites second, the deletes third
Returned_OverwrittenSecond(cnt) == <<cnt.download, cnt.rewritten, cnt.deleted>>

\* main.py:182: return download_files, deleted_files, rewritten_files
Returned(cnt) == <<cnt.download, cnt.deleted, cnt.rewritten>>

\* Variant of RestoreCursor: the cursor is left as the child set it
RestoreCursor_Skip(original_folder, current) == current

\* main.py:154: cloud.name_folder_cloud = original_folder
RestoreCursor(original_folder, current) == original_folder

\* Variant of ResetCursor: the cursor is left as the last pass left it
ResetCursor_Keep(current) == current

\* main.py:210: yandex.name_folder_cloud = name_folder_cloud
ResetCursor(current) == Root

\* main.py:215-223: the returned triple is unpacked as downloaded, removed,
\* rewrite and logged
Summary(triple) ==
    [uploaded |-> triple[1], overwritten |-> triple[3], deleted |-> triple[2]]

\* The frame of a call of synchronization() that has not yet listed
NewFrame(path) ==
    [path |-> path, pc |-> "list", todo |-> {}, listing |-> << >>,
     cloud_files |-> << >>, tasks |-> << >>, cnt |-> ZeroCounts,
     orig |-> Root, item |-> "", probe |-> "none", create |-> "none"]

\* The effect of a successful operation on the remote store
StoreAfter(store, t) ==
    IF t.kind = "delete"
    THEN {n \in store : ~IsPrefix(t.target, n.p)}
    ELSE {n \in store : n.p # t.target} \cup {File(t.target, Now)}

\* --------------------------------------------------------------- state
VARIABLES
    boot,       \* main() before its loop: where it is and how it got there
    local,      \* the local tree (never written)
    remote,     \* the remote store
    cursor,     \* cloud.name_folder_cloud, as a path below the remote root
    stack,      \* the frames of synchronization(), the root call first
    orphans,    \* tasks still running after their gather raised
    cancelled,  \* tasks cancelled when the process ended
    drv,        \* main(): "idle" (before a pass or asleep), "run", "dead"
    pending,    \* the exception main() did not catch, raised after the sleep
    pass,       \* number of passes started
    summary,    \* the summary line of the last pass, if it was logged
    completed,  \* the passes that returned their counters to main()
    calls,      \* bag of the backend calls made in the current pass
    faults      \* the failed backend calls so far

vars == <<boot, local, remote, cursor, stack, orphans, cancelled, drv, pending,
          pass, summary, completed, calls, faults>>

Top == stack[Len(stack)]

Call(op, target) == SetToBag({[op |-> op, target |-> target]})

Fault(call, o) == {[call |-> call, kind |-> o, pass |-> pass]}

\* A failing outcome may be drawn while the budget of faults lasts.
MayFail == Cardinality(faults) < MaxFaults

Outcomes(failing) == {"ok"} \cup (IF MayFail THEN failing ELSE {})

\* The state in which main() enters its loop (main.py:207): the adapter is
\* constructed, the remote root folder exists, no pass has run.
Init ==
    /\ boot = AtLoop
    /\ \E s \in Scenarios : local = s.local /\ remote = s.remote
    /\ cursor = Root
    /\ stack = << >>
    /\ orphans = {}
    /\ cancelled = {}
    /\ drv = "idle"
    /\ pending = "none"
    /\ pass = 0
    /\ summary = << >>
    /\ completed = {}
    /\ calls = EmptyBag
    /\ faults = {}

\* An exception e raised in the body of the top frame: it unwinds every frame
\* (nothing suspends on the way) and main() either catches it or keeps it
\* until its finally block has slept.  The tasks in "running" live on.
Abort(e, running) ==
    LET x == AtMain(e, Len(stack))
    IN  /\ stack' = << >>
        /\ orphans' = orphans \cup running
        /\ drv' = "idle"
        /\ pending' = IF MainCatches(x) THEN "none" ELSE x

\* The backend calls of a started batch
RECURSIVE CallsOf(_)
CallsOf(ts) ==
    IF ts = << >> THEN EmptyBag
    ELSE Call(Head(ts).kind, Head(ts).target) (+) CallsOf(Tail(ts))

Running(ts) == {ts[i] : i \in {j \in 1..Len(ts) : ts[j].st = "run"}}

AsOrphan(t) == [kind |-> t.kind, name |-> t.name, target |-> t.target,
                pass |-> pass]

SetTop(f) == [stack EXCEPT ![Len(stack)] = f]

\* cloud.name_folder_cloud = f"{cloud.name_folder_cloud}/{item}" and the
\* recursive call, up to its first await (main.py:146-148)
Descend(f) ==
    /\ cursor' = Append(cursor, f.item)
    /\ stack' = Append(SetTop([f EXCEPT !.pc = "wait"]),
                       NewFrame(Append(f.path, f.item)))

\* ------------------------------------------------------------- actions
\* main.py:207-218: the loop of main() resets the cursor and calls
\* synchronization() on the root.
StartPass ==
    /\ boot.pc = "loop"
    /\ drv = "idle" /\ pending = "none" /\ pass < MaxPass
    /\ cursor' = ResetCursor(cursor)
    /\ stack' = <<NewFrame(Root)>>
    /\ drv' = "run"
    /\ pass' = pass + 1
    /\ summary' = << >>
    /\ calls' = EmptyBag
    /\ UNCHANGED <<boot, local, remote, orphans, cancelled, pending, completed,
                   faults>>

\* main.py:128-135: cloud_files = await cloud.get_info(); os.listdir
GetInfo ==
    /\ drv = "run" /\ stack # << >> /\ Top.pc = "list"
    /\ \E o \in (IF FolderExists(remote, cursor) THEN {"ok"} ELSE {"status"})
                \cup (IF MayFail THEN Statuses \cup Transport ELSE {}) :
        /\ calls' = calls (+) Call("list", cursor)
        /\ faults' = IF o = "ok" THEN faults ELSE faults \cup Fault("list", o)
        /\ IF o = "ok"
           THEN /\ stack' = SetTop([Top EXCEPT
                        !.pc = "loop",
                        !.listing = Listing(remote, cursor),
                        !.cloud_files = Listing(remote, cursor),
                        !.todo = listdir(local, Top.path)])
                /\ UNCHANGED <<orphans, drv, pending>>
           ELSE Abort(GetInfoRaises(o), {})
    /\ UNCHANGED <<boot, local, remote, cursor, cancelled, pass, summary,
                   completed>>

\* main.py:157-169: one local file of the directory
VisitFile ==
    /\ drv = "run" /\ stack # << >> /\ Top.pc = "loop"
    /\ \E item \in Top.todo :
        /\ ~isdir(local, Top.path, item)
        /\ LET has  == item \in DOMAIN Top.cloud_files
               kind == Classify(has, getmtime(local, Top.path, item),
                                IF has THEN Top.cloud_files[item] ELSE 0)
           IN  stack' = SetTop([Top EXCEPT
                    !.todo = @ \ {item},
                    !.cloud_files = Pop(@, item),
                    !.tasks = IF kind = "none" THEN @
                              ELSE Append(@, Task(kind, item)),
                    !.cnt = Count(@, kind)])
    /\ UNCHANGED <<boot, local, remote, cursor, orphans, cancelled, drv,
                   pending, pass, summary, completed, calls, faults>>

\* main.py:138-148: a local subdirectory: the cursor is saved and the folder
\* probed; an existing folder is entered at once.
IsExistsFolder ==
    /\ drv = "run" /\ stack # << >> /\ Top.pc = "loop"
    /\ \E item \in Top.todo, o \in Outcomes(Statuses \cup Transport) :
        /\ isdir(local, Top.path, item)
        /\ LET target == Append(cursor, item)
               found == o = "ok" /\ FolderExists(remote, target)
           f == [Top EXCEPT !.orig = cursor, !.item = item,
                            !.todo = @ \ {item}, !.create = "none",
                            !.probe = IF found THEN "found" ELSE "absent"]
           IN  /\ calls' = calls (+) Call("exists", target)
               /\ faults' = IF o = "ok" THEN faults
                            ELSE faults \cup Fault("exists", o)
               /\ IF IsExistsRaises(o) # "none"
                  THEN /\ Abort(IsExistsRaises(o), {})
                       /\ UNCHANGED cursor
                  ELSE IF found
                  THEN /\ Descend(f)
                       /\ UNCHANGED <<orphans, drv, pending>>
                  ELSE /\ stack' = SetTop([f EXCEPT !.pc = "create"])
                       /\ UNCHANGED <<cursor, orphans, drv, pending>>
    /\ UNCHANGED <<boot, local, remote, cancelled, pass, summary, completed>>

\* main.py:144-148: create_folder_in_cloud(cloud, item), then the folder is
\* entered whether or not it was created.
CreateFolder ==
    /\ drv = "run" /\ stack # << >> /\ Top.pc = "create"
    /\ \E o \in Outcomes(Statuses \cup Transport) :
        LET target == Append(cursor, Top.item)
            ans == Answer(o, FolderExists(remote, target))
            r == create_folder_in_cloud(ans)
        IN  /\ calls' = calls (+) Call("create", target)
            /\ faults' = IF CreateFolderRaises(ans) = "none" THEN faults
                         ELSE faults \cup Fault("create", ans)
            /\ remote' = IF ans = "created"
                         THEN remote \cup {Dir(target)} ELSE remote
            /\ IF r \in {"ok", "None"}
               THEN /\ Descend([Top EXCEPT !.create = ans])
                    /\ UNCHANGED <<orphans, drv, pending>>
               ELSE /\ Abort(r, {})
                    /\ UNCHANGED cursor
    /\ UNCHANGED <<boot, local, cancelled, pass, summary, completed>>

\* main.py:171-181: the delete sweep, then asyncio.gather starts the batch
Gather ==
    /\ drv = "run" /\ stack # << >> /\ Top.pc = "loop" /\ Top.todo = {}
    /\ LET dels == SetToSeq(DeleteSweep(local, Top.path, Top.cloud_files))
           all  == Top.tasks \o [i \in 1..Len(dels) |-> Task("delete", dels[i])]
           run  == [i \in 1..Len(all) |-> Start(all[i], cursor)]
       IN  /\ stack' = SetTop([Top EXCEPT
                    !.pc = "gather",
                    !.tasks = run,
                    !.cnt = [@ EXCEPT !.deleted = @ + Len(dels)]])
           /\ calls' = calls (+) CallsOf(run)
    /\ UNCHANGED <<boot, local, remote, cursor, orphans, cancelled, drv,
                   pending, pass, summary, completed, faults>>

\* One operation of the running batch ends: cloud_load or delete_file.  An
\* exception that leaves the task is re-raised by gather in the frame at
\* once, while the other tasks of the batch keep running.
TaskDone ==
    /\ drv = "run" /\ stack # << >> /\ Top.pc = "gather"
    /\ \E i \in 1..Len(Top.tasks) :
        /\ Top.tasks[i].st = "run"
        /\ \E o \in Outcomes(Statuses \cup Transport \cup
                    (IF Top.tasks[i].kind = "delete" THEN {} ELSE {"perm"})) :
            LET t == Top.tasks[i]
                r == IF t.kind = "delete" THEN delete_file(o) ELSE cloud_load(o)
                done(st) == [Top EXCEPT !.tasks[i].st = st]
            IN  /\ faults' = IF o = "ok" THEN faults
                             ELSE faults \cup Fault(t.kind, o)
                /\ remote' = IF r = "ok" THEN StoreAfter(remote, t) ELSE remote
                /\ IF r \in {"ok", "None"}
                   THEN /\ stack' = SetTop(done(IF r = "ok" THEN "ok" ELSE "fail"))
                        /\ UNCHANGED <<orphans, drv, pending>>
                   ELSE Abort(r, {AsOrphan(u) : u \in Running(Top.tasks) \ {t}})
    /\ UNCHANGED <<boot, local, cursor, cancelled, pass, summary, completed,
                   calls>>

BatchOver == \A i \in 1..Len(Top.tasks) : Top.tasks[i].st \in {"ok", "fail"}

\* main.py:181-182 and 147-155: gather returns, the frame returns its
\* counters, the caller adds them and restores the cursor.
ReturnToCaller ==
    /\ drv = "run" /\ Len(stack) > 1 /\ Top.pc = "gather" /\ BatchOver
    /\ LET caller == stack[Len(stack) - 1]
       IN  /\ stack' = [SubSeq(stack, 1, Len(stack) - 1) EXCEPT
                    ![Len(stack) - 1] = [caller EXCEPT
                        !.pc = "loop",
                        !.cnt = AddCounts(@, Returned(Top.cnt))]]
           /\ cursor' = RestoreCursor(caller.orig, cursor)
    /\ UNCHANGED <<boot, local, remote, orphans, cancelled, drv, pending, pass,
                   summary, completed, calls, faults>>

\* main.py:181-182 and 215-236: the root call returns, main() logs the
\* summary and goes to sleep.
ReturnToMain ==
    /\ drv = "run" /\ Len(stack) = 1 /\ Top.pc = "gather" /\ BatchOver
    /\ stack' = << >>
    /\ summary' = <<Summary(Returned(Top.cnt))>>
    /\ completed' = completed \cup {pass}
    /\ drv' = "idle"
    /\ UNCHANGED <<boot, local, remote, cursor, orphans, cancelled, pending,
                   pass, calls, faults>>

\* A task whose gather has already raised ends on its own.
OrphanDone ==
    /\ \E t \in orphans, ok \in BOOLEAN :
        /\ orphans' = orphans \ {t}
        /\ remote' = IF ok THEN StoreAfter(remote, t) ELSE remote
    /\ UNCHANGED <<boot, local, cursor, stack, cancelled, drv, pending, pass,
                   summary, completed, calls, faults>>

\* main.py:231-236 and 239-241: after the sleep of the finally block the
\* uncaught exception leaves main(); asyncio.run cancels what still runs.
Exit ==
    /\ drv = "idle" /\ pending # "none"
    /\ drv' = "dead"
    /\ cancelled' = orphans
    /\ orphans' = {}
    /\ UNCHANGED <<boot, local, remote, cursor, stack, pending, pass, summary,
                   completed, calls, faults>>

Next ==
    \/ StartPass
    \/ GetInfo
    \/ VisitFile
    \/ IsExistsFolder
    \/ CreateFolder
    \/ Gather
    \/ TaskDone
    \/ ReturnToCaller
    \/ ReturnToMain
    \/ OrphanDone
    \/ Exit

Spec == Init /\ [][Next]_vars

\* The sleep of the finally block of main() is finite, so an exception that
\* main() did not catch does leave it.
FairSpec == Spec /\ WF_vars(Exit)

\* ------------------------------------------------ main() before its loop
\* main.py:185-201: the environment is read, the adapter constructed and the
\* creation of the remote root folder requested.
InitStartup ==
    /\ \E exists \in BOOLEAN, period \in Periods :
        boot = [pc |-> "create", o |-> "ok", exists |-> exists,
                period |-> period, exc |-> "none"]
    /\ \E s \in Scenarios : local = s.local /\ remote = s.remote
    /\ cursor = Root
    /\ stack = << >>
    /\ orphans = {}
    /\ cancelled = {}
    /\ drv = "idle"
    /\ pending = "none"
    /\ pass = 0
    /\ summary = << >>
    /\ completed = {}
    /\ calls = EmptyBag
    /\ faults = {}

\* main.py:201-207: the backend answers the creation of the root folder;
\* nothing suspends between that answer and the loop.
StartupDone ==
    /\ boot.pc = "create"
    /\ \E o \in {"ok"} \cup Statuses \cup Transport :
        LET r == Startup(o, boot.exists, boot.period)
        IN  /\ boot' = [boot EXCEPT
                    !.o = o,
                    !.pc = IF r = "loop" THEN "loop" ELSE "dead",
                    !.exc = IF r = "loop" THEN "none" ELSE r]
            /\ drv' = IF r = "loop" THEN "idle" ELSE "dead"
    /\ UNCHANGED <<local, remote, cursor, stack, orphans, cancelled, pending,
                   pass, summary, completed, calls, faults>>

SpecStartup == InitStartup /\ [][StartupDone]_vars

\* ================================================================ claims
\* The frames whose batch is complete: the loop over os.listdir and the
\* delete sweep are over, "tasks" holds everything the directory schedules.
Diffed == {k \in 1..Len(stack) : stack[k].pc = "gather"}

\* How many entries of the frame's "tasks" are of this kind for this name
N(f, kind, name) ==
    Cardinality({i \in 1..Len(f.tasks) :
                    f.tasks[i].kind = kind /\ f.tasks[i].name = name})

Scheduled(f, kind) == {f.tasks[i].name : i \in {j \in 1..Len(f.tasks) : f.tasks[j].kind = kind}}

LocalFiles(path) == {n \in listdir(local, path) : ~isdir(local, path, n)}
LocalDirs(path)  == {n \in listdir(local, path) : isdir(local, path, n)}

\* C1: in every directory visited, a local file whose name is absent from the
\* directory's remote listing gets exactly one upload, and no overwrite and
\* no delete.
C1_UploadOnce ==
    \A k \in Diffed :
        \A f \in LocalFiles(stack[k].path) \ DOMAIN stack[k].listing :
            /\ N(stack[k], "upload", f) = 1
            /\ N(stack[k], "overwrite", f) = 0
            /\ N(stack[k], "delete", f) = 0

C1_Witness ==
    \E k \in Diffed :
        \E f \in LocalFiles(stack[k].path) \ DOMAIN stack[k].listing :
            /\ N(stack[k], "upload", f) = 1
            /\ stack[k].listing # << >>

\* C2: a local file whose name is in the remote listing gets an overwrite
\* exactly when its local mtime is strictly greater than the listed one; when
\* local <= remote nothing at all is scheduled for it.
C2_OverwriteIffNewer ==
    \A k \in Diffed :
        \A f \in LocalFiles(stack[k].path) \cap DOMAIN stack[k].listing :
            LET lm == getmtime(local, stack[k].path, f)
                rm == stack[k].listing[f]
            IN  /\ N(stack[k], "overwrite", f) = (IF lm > rm THEN 1 ELSE 0)
                /\ lm <= rm =>
                     /\ N(stack[k], "upload", f) = 0
                     /\ N(stack[k], "delete", f) = 0

C2_Witness ==
    \E k \in Diffed :
        \E f \in LocalFiles(stack[k].path) \cap DOMAIN stack[k].listing :
            /\ getmtime(local, stack[k].path, f) > stack[k].listing[f]
            /\ N(stack[k], "overwrite", f) = 1

\* C3: a name of the remote listing that is no local file of the directory
\* gets a delete exactly when no local directory has that name; a name that
\* is a local directory never gets a delete.
C3_DeleteUnlessLocalDir ==
    \A k \in Diffed :
        /\ \A r \in (DOMAIN stack[k].listing) \ LocalFiles(stack[k].path) :
             N(stack[k], "delete", r) =
                (IF isdir(local, stack[k].path, r) THEN 0 ELSE 1)
        /\ \A d \in LocalDirs(stack[k].path) : N(stack[k], "delete", d) = 0

C3_Witness ==
    \E k \in Diffed :
        /\ \E r \in DOMAIN stack[k].listing : isdir(local, stack[k].path, r)
        /\ \E r \in (DOMAIN stack[k].listing) \ LocalFiles(stack[k].path) :
             N(stack[k], "delete", r) = 1

\* C4: in every directory visited, the names scheduled for upload, for
\* overwrite and for delete are pairwise disjoint.
C4_KindsDisjoint ==
    \A k \in Diffed :
        /\ Scheduled(stack[k], "upload") \cap Scheduled(stack[k], "overwrite") = {}
        /\ Scheduled(stack[k], "upload") \cap Scheduled(stack[k], "delete") = {}
        /\ Scheduled(stack[k], "overwrite") \cap Scheduled(stack[k], "delete") = {}

C4_Witness ==
    \E k \in Diffed :
        /\ Scheduled(stack[k], "overwrite") # {}
        /\ Scheduled(stack[k], "delete") # {}

\* The upload, overwrite and delete requests of the current pass
Operations ==
    {c \in BagToSet(calls) : c.op \in {"upload", "overwrite", "delete"}}

\* The requests of the current pass that change the remote store
Mutations ==
    LET S == {c \in BagToSet(calls) :
                c.op \in {"create", "upload", "overwrite", "delete"}}
    IN  [c \in S |-> calls[c]]

NoCounts == [uploaded |-> 0, overwritten |-> 0, deleted |-> 0]

\* No backend call of the previous pass failed.
PreviousPassClean == \A x \in faults : x.pass # pass - 1

\* No local file is dated later than the stamp the backend puts on a file
\* it stores.
NoFutureFiles == \A n \in local : ~n.d => n.m <= Now

C6_NoSiblingCancelled ==
    (\A x \in faults : x.call \in {"upload", "overwrite", "delete"}) =>
        cancelled = {}

\* The process has stopped working: no call of synchronization() is active,
\* and main() holds an exception it did not catch or has ended.
Halted ==
    /\ stack = << >>
    /\ drv = "dead" \/ (drv = "idle" /\ pending # "none")

\* C7 as stated, for runs whose only failures are rejections as unauthorized:
\* once a backend call was rejected as unauthorized, the driver starts no
\* other pass.
C7_AnyUnauthorizedStopsDriver ==
    (\A x \in faults : x.kind = "unauthorized") =>
        \A x \in faults : x.pass = pass

CreateUnauthorized ==
    \E x \in faults : x.call = "create" /\ x.kind = "unauthorized"

\* C7 as amended: once a folder-create call was rejected as unauthorized, no
\* directory is entered and no pass is started any more, and the process
\* terminates.
C7_CreateUnauthorizedIsFatal ==
    /\ [](CreateUnauthorized => Halted)
    /\ (CreateUnauthorized ~> drv = "dead")

C7_Witness ==
    /\ CreateUnauthorized
    /\ drv = "dead"
    /\ pass = 1
    /\ \E d \in LocalDirs(Root) : ~FolderExists(remote, <<d>>)

\* C8: whenever a call of synchronization() is running (its listing call
\* included), the cursor is the remote root extended by exactly the relative
\* path of the local directory being processed; no listing is ever requested
\* for another path.
C8_CursorIsLocalPath ==
    /\ stack # << >> => cursor = Top.path
    /\ \A c \in BagToSet(calls) :
         c.op = "list" =>
            c.target = Root \/ \E n \in local : n.d /\ n.p = c.target

C8_Witness ==
    /\ stack # << >>
    /\ Top.path = <<"A", "C">>
    /\ Top.pc = "gather"
    /\ cursor = <<"A", "C">>
    /\ [op |-> "list", target |-> <<"A", "B">>] \in BagToSet(calls)
    /\ Dir(<<"A", "B", "C">>) \in remote

\* C9: in the scenario (report.txt newer locally, old.txt only remote, img/
\* with a.png only local) a pass whose backend calls all succeed issues
\* exactly overwrite report.txt, delete old.txt, create img, upload img/a.png
\* and reports uploaded=1, overwritten=1, deleted=1.
C9_Scenario ==
    (local = LocalScenario /\ pass = 1 /\ faults = {} /\ summary # << >>) =>
        /\ Mutations = SetToBag({
                [op |-> "overwrite", target |-> <<"report.txt">>],
                [op |-> "delete",    target |-> <<"old.txt">>],
                [op |-> "create",    target |-> <<"img">>],
                [op |-> "upload",    target |-> <<"img", "a.png">>]})
        /\ summary[1] = [uploaded |-> 1, overwritten |-> 1, deleted |-> 1]

C9_Witness ==
    /\ local = LocalScenario /\ pass = 1 /\ faults = {} /\ summary # << >>
    /\ remote = {File(<<"report.txt">>, Now), Dir(<<"img">>),
                 File(<<"img", "a.png">>, Now)}

\* C10 as stated: when the only failures are non-success statuses of remote
\* listings and non-authorization rejections of folder creations, the pass
\* is not aborted: no exception reaches main() uncaught and the process
\* lives on to schedule the next pass.
C10_DirectoryFailureDegrades ==
    (\A x \in faults : x.call \in {"list", "create"} /\ x.kind = "status") =>
        pending = "none" /\ drv # "dead"


\* What the three checks of the startup are to establish: the remote root
\* folder exists or was created, the local root exists, the period is a
\* positive integer.
StartupValid ==
    /\ boot.o = "ok"
    /\ boot.exists
    /\ isdigit(boot.period) /\ int(boot.period) > 0

\* C11: once the startup of main() is over, main() is in its loop, where the
\* first pass starts, exactly if the three checks of the startup succeeded;
\* otherwise the process has ended and no pass is ever started.
C11_LoopIffStartupValid ==
    boot.pc # "create" => (boot.pc = "loop" <=> StartupValid)
\* How many operations of this kind of the frame's batch succeeded
Succeeded(f, kind) ==
    Cardinality({i \in 1..Len(f.tasks) :
                    f.tasks[i].kind = kind /\ f.tasks[i].st = "ok"})

\* The frames of directories without subdirectories whose batch is over:
\* their counters are their own operations only.
LeafOver ==
    {k \in Diffed : /\ LocalDirs(stack[k].path) = {}
                    /\ \A i \in 1..Len(stack[k].tasks) :
                           stack[k].tasks[i].st \in {"ok", "fail"}}

\* C12: when the batch of a directory is over, each of its counters is the
\* number of operations of that kind that succeeded: a failed operation is
\* not counted.
C12_CountsAreSuccesses ==
    \A k \in LeafOver :
        /\ stack[k].cnt.download = Succeeded(stack[k], "upload")
        /\ stack[k].cnt.rewritten = Succeeded(stack[k], "overwrite")
        /\ stack[k].cnt.deleted = Succeeded(stack[k], "delete")
\* The failed calls so far were all uploads, overwrites or deletes.
OnlyOperationsFailed ==
    \A x \in faults : x.call \in {"upload", "overwrite", "delete"}

\* C13: an error of an upload, overwrite or delete never leaves the call of
\* synchronization() it was scheduled in: as long as nothing else failed,
\* every pass that is over has returned its counters to main().
C13_OperationErrorsAreContained ==
    (drv # "run" /\ OnlyOperationsFailed) => \A p \in 1..pass : p \in completed
\* C14: the cursor is back at the caller's value whenever a recursive call
\* has ended, however it ended; so once every call of synchronization() of
\* a pass has ended, the cursor is the one the root call started with.
C14_CursorRestoredAfterEveryCall ==
    stack = << >> => cursor = Root
\* C15: the operations of a directory are started together, at the gather of
\* its call of synchronization(), and none of them is still in flight once
\* that call has ended, by return or by exception.
C15_BatchEndsBeforeItsCall ==
    /\ \A k \in 1..Len(stack) : \A i \in 1..Len(stack[k].tasks) :
           stack[k].tasks[i].st = "new" <=> stack[k].pc # "gather"
    /\ orphans = {}
\* How many times the remote folder at this path was listed in this pass
Listed(path) == CopiesIn([op |-> "list", target |-> path], calls)

\* Every directory being visited has been listed once, or is about to be.
ListedOnce ==
    \A k \in 1..Len(stack) :
        Listed(stack[k].path) = IF stack[k].pc = "list" THEN 0 ELSE 1

\* The calls of synchronization() that wait for a recursive call
Waiting == 1..(Len(stack) - 1)

\* C16 as stated: a directory is listed exactly once, and while a recursive
\* call into one of its subdirectories runs, the operations scheduled for
\* its own files have already been dispatched.
C16_DispatchBeforeRecursion ==
    /\ ListedOnce
    /\ \A k \in Waiting : \A i \in 1..Len(stack[k].tasks) :
           stack[k].tasks[i].st # "new"

\* C16, amended: a directory is listed exactly once, before anything else is
\* done in it; while a recursive call into one of its subdirectories runs,
\* none of its own operations has been dispatched; and when its batch is
\* dispatched, every one of its subdirectories has been listed, that is, the
\* recursive calls come before the dispatch.
C16_RecursionBeforeDispatch ==
    /\ ListedOnce
    /\ \A k \in Waiting :
           /\ stack[k].pc = "wait"
           /\ \A i \in 1..Len(stack[k].tasks) : stack[k].tasks[i].st = "new"
    /\ \A k \in Diffed : \A d \in LocalDirs(stack[k].path) :
           Listed(Append(stack[k].path, d)) = 1

\* A recursive call has dispatched its batch while its caller holds an
\* operation that is scheduled and not started.
C16_Witness ==
    /\ Len(stack) = 2 /\ Top.pc = "gather" /\ Top.tasks # << >>
    /\ stack[1].tasks # << >>
\* How many times the creation of the folder at this path was requested
\* in this pass
Creates(path) == CopiesIn([op |-> "create", target |-> path], calls)

\* C17: the creation of the folder of a subdirectory is requested exactly
\* if the probe answered that it does not exist, once, and before the
\* subdirectory is listed; the answer "already exists" is not logged as an
\* error and the subdirectory is entered.
C17_CreateIffProbeSaysAbsent ==
    /\ \A k \in 1..Len(stack) :
        LET f == stack[k]
            t == Append(f.path, f.item)
        IN  /\ f.pc = "create" =>
                   f.probe = "absent" /\ Creates(t) = 0 /\ Listed(t) = 0
            /\ f.pc = "wait" =>
                   /\ f.probe \in {"found", "absent"}
                   /\ Creates(t) = IF f.probe = "absent" THEN 1 ELSE 0
                   /\ f.probe = "absent" <=> f.create # "none"
                   /\ stack[k + 1].path = t
    /\ \A c \in BagToSet(calls) : c.op = "create" => calls[c] = 1
    /\ \A x \in faults : x.kind # "conflict"

\* The probe of a subdirectory answered "absent", the creation that followed
\* was answered "already exists", and the subdirectory has been listed.
C17_Witness ==
    /\ Len(stack) = 2
    /\ stack[1].probe = "absent" /\ stack[1].create = "conflict"
    /\ Top.pc = "loop"
\* How many operations of this kind were dispatched in this pass at or
\* below the remote folder at this path
Below(op, path) ==
    LET S == {c \in BagToSet(calls) : c.op = op /\ IsPrefix(path, c.target)}
    IN  BagCardinality([c \in S |-> calls[c]])

\* C18 as stated: the triple a call of synchronization() returns is
\* (uploaded, overwritten, deleted), counted over the directory and
\* everything below it.
C18_UploadedOverwrittenDeleted ==
    \A k \in Diffed :
        Returned(stack[k].cnt) = <<Below("upload", stack[k].path),
                                   Below("overwrite", stack[k].path),
                                   Below("delete", stack[k].path)>>

\* C18, amended: the triple is (uploaded, deleted, overwritten), each
\* counted over the directory and everything below it, and the summary of
\* main() reports each number under its own kind.
C18_UploadedDeletedOverwritten ==
    /\ \A k \in Diffed :
        Returned(stack[k].cnt) = <<Below("upload", stack[k].path),
                                   Below("delete", stack[k].path),
                                   Below("overwrite", stack[k].path)>>
    /\ summary # << >> =>
        summary[1] = [uploaded    |-> Below("upload", Root),
                      overwritten |-> Below("overwrite", Root),
                      deleted     |-> Below("delete", Root)]

\* The root call has returned a delete of its own and an upload of a
\* subdirectory, and no overwrite, and main() has logged them.
C18_Witness ==
    /\ summary = <<[uploaded |-> 1, overwritten |-> 0, deleted |-> 1]>>
    /\ \E c \in BagToSet(calls) : c.op = "upload" /\ Len(c.target) = 2
\* The frames whose batch has just been dispatched
Dispatched ==
    {k \in Diffed : \A i \in 1..Len(stack[k].tasks) :
                        stack[k].tasks[i].st = "run"}

C19_FailedOperationIsLeftToNextPass ==
    (faults # {} /\ OnlyOperationsFailed) => drv # "dead"
\* The remote paths of the local directories, the root included
LocalDirPaths == {Root} \cup {n.p : n \in {m \in local : m.d}}

\* C21: an upload, overwrite or delete scheduled for a name of a local
\* directory targets that name below the remote folder of that directory,
\* although the cursor is read only when the operation starts: the target
\* of an upload or overwrite is the path of a local file, the target of a
\* delete is a path that is no local entry and lies directly in the folder
\* of a local directory.
C21_OperationTargetsItsDirectory ==
    /\ \A k \in 1..Len(stack) : \A i \in 1..Len(stack[k].tasks) :
           stack[k].tasks[i].st # "new" =>
               stack[k].tasks[i].target =
                   Append(stack[k].path, stack[k].tasks[i].name)
    /\ \A c \in Operations :
           /\ Parent(c.target) \in LocalDirPaths
           /\ c.op \in {"upload", "overwrite"} =>
                  \E n \in local : ~n.d /\ n.p = c.target
           /\ c.op = "delete" => \A n \in local : n.p # c.target

\* The root call has dispatched an operation for a file of its own after a
\* recursive call into a subdirectory extended the cursor, dispatched an
\* operation there and returned.
C21_Witness ==
    /\ Len(stack) = 1 /\ Top.pc = "gather"
    /\ \E i \in 1..Len(Top.tasks) :
           /\ Top.tasks[i].kind = "overwrite"
           /\ Top.tasks[i].target = <<Top.tasks[i].name>>
    /\ \E c \in Operations : c.op = "upload" /\ Len(c.target) = 2
\* C22: when a pass starts, that is, when the root call of synchronization()
\* is about to list, the cursor is the remote root, whatever the pass before
\* left in it.
C22_PassStartsAtRoot ==
    (Len(stack) = 1 /\ Top.pc = "list") => cursor = Root

\* The second pass starts after the first was aborted by a timeout of the
\* upload of img/a.png, which main() caught with the cursor at img.
C22_Witness ==
    /\ local = LocalScenario
    /\ pass = 2 /\ Len(stack) = 1 /\ Top.pc = "list"
    /\ 1 \notin completed
    /\ [call |-> "upload", kind |-> "timeout", pass |-> 1] \in faults
====
